---- MODULE Spec2Model ----
(***************************************************************************)
(* A model of jawa's constant pool (jawa/core/constants.py) and of its     *)
(* RuntimeVisibleAnnotations codec (jawa/attributes/annotations.py).       *)
(*                                                                         *)
(* Python values are records carrying their type in the field ty, so that  *)
(* an attribute read or a comparison on a value of the wrong type is an    *)
(* outcome of the model (an AttributeError) and not an ill-typed formula.  *)
(* A call's outcome is a record with the field exc: "" for a normal        *)
(* return, else the name of the exception raised.                          *)
(***************************************************************************)
EXTENDS Integers, Sequences, FiniteSets, TLC

VARIABLES
    pool,     \* ConstantPool._pool: the dict index -> constant
    prev,     \* the dict as it was when the last call was made
    call,     \* the last call made: its name and arguments
    ret,      \* what the last call returned or raised
    io,       \* the byte stream handed to _load_from_io
    pos,      \* the stream's read cursor (bytes already read)
    count,    \* _load_from_io's local count
    iter,     \* the next value xrange(1, count)'s iterator yields
    pc,       \* where _load_from_io is: "new", "loop", "returned", "raised"
    info,     \* the bytes handed to unpack
    target,   \* the ElementValue or attribute that unpack is called on
    skip      \* what the last unpack returned: the bytes it consumed

vars == <<pool, prev, call, ret, io, pos, count, iter, pc, info, target, skip>>

----------------------------------------------------------------------------
(* Bounds of the model *)

\* the largest slot index an insert of the model may fill
MaxIndex == 3
\* the largest declared constant_pool_count of a generated stream
MaxCount == 4
\* the largest number of records in a generated stream
MaxRecords == 2

----------------------------------------------------------------------------
(* Python values *)

None == [ty |-> "NoneType"]
PyInt(n) == [ty |-> "int", v |-> n]
\* a byte string (Python 2 str), as its bytes
PyStr(b) == [ty |-> "str", b |-> b]
\* a float, held as the IEEE-754 big-endian bytes that denote it
PyFloat(b) == [ty |-> "float", be |-> b]
\* a 64-bit integer, held as its big-endian two's-complement bytes
PyLong(b) == [ty |-> "long", be |-> b]

ConstantClass(name_index) == [ty |-> "ConstantClass", ni |-> name_index]
ConstantString(string_index) == [ty |-> "ConstantString", si |-> string_index]
ConstantFieldRef(klass_index, name_and_type_index) ==
    [ty |-> "ConstantFieldRef", ki |-> klass_index, nti |-> name_and_type_index]
ConstantMethodRef(klass_index, name_and_type_index) ==
    [ty |-> "ConstantMethodRef", ki |-> klass_index, nti |-> name_and_type_index]
ConstantInterfaceMethodRef(klass_index, name_and_type_index) ==
    [ty |-> "ConstantInterfaceMethodRef", ki |-> klass_index,
     nti |-> name_and_type_index]
ConstantInteger(value) == [ty |-> "ConstantInteger", value |-> value]
ConstantFloat(value) == [ty |-> "ConstantFloat", value |-> value]
ConstantLong(value) == [ty |-> "ConstantLong", value |-> value]
ConstantDouble(value) == [ty |-> "ConstantDouble", value |-> value]
ConstantNameAndType(name_index, descriptor_index) ==
    [ty |-> "ConstantNameAndType", ni |-> name_index, di |-> descriptor_index]

Return(v) == [exc |-> "", val |-> v]
Raise(e) == [exc |-> e, val |-> None]

----------------------------------------------------------------------------
(* ConstantPool *)

EmptyPool == [j \in {} |-> None]

\* get as it would be if the default were dropped
ConstantPool_get_no_default(p, index, default) ==
    IF index \in DOMAIN p THEN p[index] ELSE None

\* get(index, default)
ConstantPool_get(p, index, default) ==
    IF index \in DOMAIN p THEN p[index] ELSE default

Store(p, index, constant) ==
    [j \in (DOMAIN p) \cup {index} |-> IF j = index THEN constant ELSE p[j]]

SetMin(S) == CHOOSE m \in S : \A n \in S : m <= n

RECURSIVE Sorted(_)
Sorted(S) ==
    IF S = {} THEN <<>> ELSE <<SetMin(S)>> \o Sorted(S \ {SetMin(S)})

\* the loop of insert: for i in existing: if i > last + 1: break; last = i
RECURSIVE GapScan(_, _, _)
GapScan(existing, k, last) ==
    IF k > Len(existing) THEN last
    ELSE IF existing[k] > last + 1 THEN last
    ELSE GapScan(existing, k + 1, existing[k])

FirstFree(p) ==
    LET existing == Sorted(DOMAIN p)
    IN  GapScan(existing, 1, existing[1]) + 1

\* insert as it would be if a given index kept the constant it already holds
ConstantPool_insert_keep(p, constant, index) ==
    IF index # None THEN
        IF index.v < 1
        THEN [out |-> Raise("ValueError"), pool |-> p]
        ELSE IF index.v \in DOMAIN p
        THEN [out |-> Return(index), pool |-> p]
        ELSE [out |-> Return(index), pool |-> Store(p, index.v, constant)]
    ELSE IF DOMAIN p = {} THEN
        [out |-> Return(PyInt(1)), pool |-> Store(p, 1, constant)]
    ELSE
        [out |-> Return(PyInt(FirstFree(p))),
         pool |-> Store(p, FirstFree(p), constant)]

\* insert(constant, index): the outcome and the dict afterwards
ConstantPool_insert(p, constant, index) ==
    IF index # None THEN
        IF index.v < 1
        THEN [out |-> Raise("ValueError"), pool |-> p]
        ELSE [out |-> Return(index), pool |-> Store(p, index.v, constant)]
    ELSE IF DOMAIN p = {} THEN
        [out |-> Return(PyInt(1)), pool |-> Store(p, 1, constant)]
    ELSE
        [out |-> Return(PyInt(FirstFree(p))),
         pool |-> Store(p, FirstFree(p), constant)]

----------------------------------------------------------------------------
(* Attribute reads on a value *)

HasAttr(obj, attr) ==
    CASE attr = "name" -> obj.ty \in {"ConstantClass", "ConstantNameAndType"}
      [] attr = "string" -> obj.ty = "ConstantString"
      [] attr \in {"klass", "name_and_type"} ->
            obj.ty \in {"ConstantFieldRef", "ConstantMethodRef",
                        "ConstantInterfaceMethodRef"}
      [] attr = "descriptor" -> obj.ty = "ConstantNameAndType"
      [] attr = "value" ->
            obj.ty \in {"ConstantInteger", "ConstantFloat", "ConstantLong",
                        "ConstantDouble"}
      [] OTHER -> FALSE

\* the index an accessor property resolves
RefIndex(obj, attr) ==
    CASE attr = "name" -> obj.ni
      [] attr = "string" -> obj.si
      [] attr = "klass" -> obj.ki
      [] attr = "name_and_type" -> obj.nti
      [] attr = "descriptor" -> obj.di

\* obj.attr, evaluated against the dict p
GetAttr(p, obj, attr) ==
    IF ~HasAttr(obj, attr) THEN Raise("AttributeError")
    ELSE IF attr = "value" THEN Return(obj.value)
    ELSE Return(ConstantPool_get(p, RefIndex(obj, attr), None))

----------------------------------------------------------------------------
(* struct and the stream *)

Min(a, b) == IF a <= b THEN a ELSE b

\* io.read(n) with the cursor at ps: at most n bytes, fewer at the end
Read(s, ps, n) ==
    [data |-> SubSeq(s, ps + 1, Min(ps + n, Len(s))),
     pos |-> Min(ps + n, Len(s))]

\* unpack('>H', b)
U16(b) == b[1] * 256 + b[2]

\* pack('>H', n)
P16(n) == <<n \div 256, n % 256>>

\* unpack('>i', b): a signed 32-bit integer
S32(b) ==
    (IF b[1] >= 128 THEN b[1] - 256 ELSE b[1]) * 16777216
        + b[2] * 65536 + b[3] * 256 + b[4]

\* the bytes read after the tag by the fixed-size branches
FieldSize(tag) ==
    CASE tag \in {7, 8} -> 2
      [] tag \in {3, 4, 9, 10, 11, 12} -> 4
      [] tag \in {5, 6} -> 8

\* the constant each fixed-size branch builds from its bytes
MakeConstant(tag, b) ==
    CASE tag = 7 -> ConstantClass(U16(b))
      [] tag = 8 -> ConstantString(U16(b))
      [] tag = 3 -> ConstantInteger(PyInt(S32(b)))
      [] tag = 4 -> ConstantFloat(PyFloat(b))
      [] tag = 5 -> ConstantLong(PyLong(b))
      [] tag = 6 -> ConstantDouble(PyFloat(b))
      [] tag = 12 -> ConstantNameAndType(U16(SubSeq(b, 1, 2)), U16(SubSeq(b, 3, 4)))
      [] tag = 9 -> ConstantFieldRef(U16(SubSeq(b, 1, 2)), U16(SubSeq(b, 3, 4)))
      [] tag = 10 -> ConstantMethodRef(U16(SubSeq(b, 1, 2)), U16(SubSeq(b, 3, 4)))
      [] tag = 11 ->
            ConstantInterfaceMethodRef(U16(SubSeq(b, 1, 2)), U16(SubSeq(b, 3, 4)))

\* the tags whose branch calls next(iterable) after storing
WideTags == {5, 6}

\* the tags _load_from_io has a branch for
BranchTags == {1, 3, 4, 5, 6, 7, 8, 9, 10, 11, 12}

\* the branch of tag 1: read(unpack('>H', read(2))[0]), stored as it comes
LoadUtf8(p, s, ps, index, it) ==
    LET ln == Read(s, ps, 2)
    IN  IF Len(ln.data) # 2
        THEN [exc |-> "struct.error", pool |-> p, pos |-> ln.pos, iter |-> it]
        ELSE LET body == Read(s, ln.pos, U16(ln.data))
             IN  [exc |-> "", pool |-> Store(p, index, PyStr(body.data)),
                  pos |-> body.pos, iter |-> it]

\* the fixed-size branches as they would be without next(iterable)
LoadFixed_no_skip(p, s, ps, index, it, cnt, tag) ==
    LET fd == Read(s, ps, FieldSize(tag))
    IN  IF Len(fd.data) # FieldSize(tag)
        THEN [exc |-> "struct.error", pool |-> p, pos |-> fd.pos, iter |-> it]
        ELSE [exc |-> "", pool |-> Store(p, index, MakeConstant(tag, fd.data)),
              pos |-> fd.pos, iter |-> it]

\* the branches of the other tags: unpack a fixed-size field, store, and for
\* a Long or Double advance the loop's iterator once more
LoadFixed(p, s, ps, index, it, cnt, tag) ==
    LET fd == Read(s, ps, FieldSize(tag))
    IN  IF Len(fd.data) # FieldSize(tag)
        THEN [exc |-> "struct.error", pool |-> p, pos |-> fd.pos, iter |-> it]
        ELSE IF tag \in WideTags
        THEN IF it >= cnt
             THEN [exc |-> "StopIteration",
                   pool |-> Store(p, index, MakeConstant(tag, fd.data)),
                   pos |-> fd.pos, iter |-> it]
             ELSE [exc |-> "", pool |-> Store(p, index, MakeConstant(tag, fd.data)),
                   pos |-> fd.pos, iter |-> it + 1]
        ELSE [exc |-> "", pool |-> Store(p, index, MakeConstant(tag, fd.data)),
              pos |-> fd.pos, iter |-> it]

\* one pass of the loop body for slot index; it is the iterator's next value
LoadRecord(p, s, ps, index, it, cnt) ==
    LET tg == Read(s, ps, 1)
    IN  IF Len(tg.data) # 1
        THEN [exc |-> "TypeError", pool |-> p, pos |-> tg.pos, iter |-> it]
        ELSE IF tg.data[1] = 1 THEN LoadUtf8(p, s, tg.pos, index, it)
        ELSE IF tg.data[1] \in BranchTags
        THEN LoadFixed(p, s, tg.pos, index, it, cnt, tg.data[1])
        ELSE [exc |-> "", pool |-> p, pos |-> tg.pos, iter |-> it]

----------------------------------------------------------------------------
(* ElementValue and RuntimeVisibleAnnotation *)

\* the tag characters, as the bytes unpack_from('>c') reads
SimpleTags == {66, 67, 68, 70, 73, 74, 83, 90, 115}
TagEnum == 101
TagClass == 99
TagAnnotation == 64
TagArray == 91

PyTuple(items) == [ty |-> "tuple", items |-> items]
PyList(items) == [ty |-> "list", items |-> items]

\* info[skip:]
From(b, n) == SubSeq(b, n + 1, Len(b))

\* unpack_from(fmt, b) for a format of n bytes fails on a shorter buffer
Short(b, n) == Len(b) < n

RECURSIVE ElementValue_unpack(_)
RECURSIVE ElementValue_unpack_values(_, _, _, _)
RECURSIVE RuntimeVisibleAnnotation_unpack(_)
RECURSIVE RuntimeVisibleAnnotation_unpack_pairs(_, _, _, _)

\* the loop of the array branch: n more values to unpack, from info[sk:]
ElementValue_unpack_values(b, sk, n, values) ==
    IF n = 0 THEN [exc |-> "", skip |-> sk, values |-> values]
    ELSE LET r == ElementValue_unpack(From(b, sk))
         IN  IF r.exc # "" THEN [exc |-> r.exc, skip |-> sk, values |-> values]
             ELSE ElementValue_unpack_values(b, sk + r.skip, n - 1,
                                             Append(values, r.obj))

\* ElementValue.unpack(info): the exception if any, the bytes consumed, and
\* the object with the attributes the call has set on it
ElementValue_unpack(b) ==
    IF Short(b, 1)
    THEN [exc |-> "struct.error", skip |-> 0, obj |-> [ty |-> "ElementValue"]]
    ELSE
    LET tag == b[1]
        fail(e) == [exc |-> e, skip |-> 0,
                    obj |-> [ty |-> "ElementValue", tag |-> tag]]
        done(sk, v) == [exc |-> "", skip |-> sk,
                        obj |-> [ty |-> "ElementValue", tag |-> tag, value |-> v]]
    IN  IF tag \in SimpleTags \/ tag = TagClass THEN
            IF Short(From(b, 1), 2) THEN fail("struct.error")
            ELSE done(3, PyInt(U16(SubSeq(b, 2, 3))))
        ELSE IF tag = TagEnum THEN
            IF Short(From(b, 1), 4) THEN fail("struct.error")
            ELSE done(5, PyTuple(<<PyInt(U16(SubSeq(b, 2, 3))),
                                   PyInt(U16(SubSeq(b, 4, 5)))>>))
        ELSE IF tag = TagAnnotation THEN
            LET r == RuntimeVisibleAnnotation_unpack(From(b, 1))
            IN  IF r.exc # "" THEN fail(r.exc) ELSE done(1 + r.skip, r.obj)
        ELSE IF tag = TagArray THEN
            IF Short(From(b, 1), 2) THEN fail("struct.error")
            ELSE LET r == ElementValue_unpack_values(b, 3, U16(SubSeq(b, 2, 3)),
                                                     <<>>)
                 IN  IF r.exc # "" THEN fail(r.exc)
                     ELSE done(r.skip, PyList(r.values))
        ELSE fail("ValueError")

\* the loop of RuntimeVisibleAnnotation.unpack: n more pairs, from info[sk:]
RuntimeVisibleAnnotation_unpack_pairs(b, sk, n, pairs) ==
    IF n = 0 THEN [exc |-> "", skip |-> sk, pairs |-> pairs]
    ELSE IF Short(From(b, sk), 2)
    THEN [exc |-> "struct.error", skip |-> sk, pairs |-> pairs]
    ELSE LET r == ElementValue_unpack(From(b, sk + 2))
         IN  IF r.exc # "" THEN [exc |-> r.exc, skip |-> sk, pairs |-> pairs]
             ELSE RuntimeVisibleAnnotation_unpack_pairs(
                      b, sk + 2 + r.skip, n - 1,
                      Append(pairs, <<U16(SubSeq(b, sk + 1, sk + 2)), r.obj>>))

\* RuntimeVisibleAnnotation.unpack(info)
RuntimeVisibleAnnotation_unpack(b) ==
    IF Short(b, 4)
    THEN [exc |-> "struct.error", skip |-> 0,
          obj |-> [ty |-> "RuntimeVisibleAnnotation"]]
    ELSE LET r == RuntimeVisibleAnnotation_unpack_pairs(
                      b, 4, U16(SubSeq(b, 3, 4)), <<>>)
         IN  [exc |-> r.exc, skip |-> r.skip,
              obj |-> [ty |-> "RuntimeVisibleAnnotation",
                       type_index |-> U16(SubSeq(b, 1, 2)),
                       num_element_value_pairs |-> U16(SubSeq(b, 3, 4)),
                       element_value_pairs |-> r.pairs]]

\* the loop of RuntimeVisibleAnnotationsAttribute.unpack; b is what is left
RECURSIVE Attribute_unpack_annotations(_, _, _)
Attribute_unpack_annotations(b, n, annotations) ==
    IF n = 0 THEN [exc |-> "", annotations |-> annotations]
    ELSE LET r == RuntimeVisibleAnnotation_unpack(b)
         IN  IF r.exc # "" THEN [exc |-> r.exc, annotations |-> annotations]
             ELSE Attribute_unpack_annotations(From(b, r.skip), n - 1,
                                               Append(annotations, r.obj))

\* RuntimeVisibleAnnotationsAttribute.unpack(info): _annotations is set last
RuntimeVisibleAnnotationsAttribute_unpack(self, b) ==
    IF Short(b, 2) THEN [exc |-> "struct.error", obj |-> self]
    ELSE LET r == Attribute_unpack_annotations(From(b, 2), U16(SubSeq(b, 1, 2)),
                                               <<>>)
         IN  IF r.exc # "" THEN [exc |-> r.exc, obj |-> self]
             ELSE [exc |-> "",
                   obj |-> [ty |-> "RuntimeVisibleAnnotationsAttribute",
                            annotations |-> r.annotations]]

\* self.<field> is set
HasField(self, field) == field \in DOMAIN self

RECURSIVE ElementValue_info(_)
RECURSIVE ElementValue_info_values(_, _, _)
RECURSIVE RuntimeVisibleAnnotation_info(_)
RECURSIVE RuntimeVisibleAnnotation_info_pairs(_, _, _)

\* for value in <values>: packed += value.info
ElementValue_info_values(values, k, packed) ==
    IF k > Len(values) THEN Return(PyStr(packed))
    ELSE LET r == ElementValue_info(values[k])
         IN  IF r.exc # "" THEN r
             ELSE ElementValue_info_values(values, k + 1, packed \o r.val.b)

\* ElementValue.info; the array branch packs len(self._value) and then
\* iterates self._values, a field that nothing sets
ElementValue_info(self) ==
    IF ~HasField(self, "tag") THEN Raise("AttributeError")
    ELSE IF self.tag \in SimpleTags \cup {TagEnum, TagClass, TagAnnotation, TagArray}
            /\ ~HasField(self, "value")
    THEN Raise("AttributeError")
    ELSE IF self.tag \in SimpleTags \/ self.tag = TagClass
    THEN Return(PyStr(<<self.tag>> \o P16(self.value.v)))
    ELSE IF self.tag = TagEnum
    THEN Return(PyStr(<<self.tag>> \o P16(self.value.items[1].v)
                        \o P16(self.value.items[2].v)))
    ELSE IF self.tag = TagAnnotation
    THEN LET r == RuntimeVisibleAnnotation_info(self.value)
         IN  IF r.exc # "" THEN r ELSE Return(PyStr(<<self.tag>> \o r.val.b))
    ELSE IF self.tag = TagArray
    THEN IF ~HasField(self, "values") THEN Raise("AttributeError")
         ELSE ElementValue_info_values(
                  self.values, 1, <<self.tag>> \o P16(Len(self.value.items)))
    ELSE Return(PyStr(<<self.tag>>))

\* for name_index, value in pairs: packed += pack('>H', name_index) + value.info
RuntimeVisibleAnnotation_info_pairs(pairs, k, packed) ==
    IF k > Len(pairs) THEN Return(PyStr(packed))
    ELSE LET r == ElementValue_info(pairs[k][2])
         IN  IF r.exc # "" THEN r
             ELSE RuntimeVisibleAnnotation_info_pairs(
                      pairs, k + 1, packed \o P16(pairs[k][1]) \o r.val.b)

\* RuntimeVisibleAnnotation.info
RuntimeVisibleAnnotation_info(self) ==
    IF ~HasField(self, "type_index") THEN Raise("AttributeError")
    ELSE RuntimeVisibleAnnotation_info_pairs(
             self.element_value_pairs, 1,
             P16(self.type_index) \o P16(self.num_element_value_pairs))

RECURSIVE Attribute_info_annotations(_, _, _)
Attribute_info_annotations(annotations, k, packed) ==
    IF k > Len(annotations) THEN Return(PyStr(packed))
    ELSE LET r == RuntimeVisibleAnnotation_info(annotations[k])
         IN  IF r.exc # "" THEN r
             ELSE Attribute_info_annotations(annotations, k + 1,
                                             packed \o r.val.b)

\* RuntimeVisibleAnnotationsAttribute.info
RuntimeVisibleAnnotationsAttribute_info(self) ==
    IF ~HasField(self, "annotations") THEN Raise("AttributeError")
    ELSE Attribute_info_annotations(self.annotations, 1,
                                    P16(Len(self.annotations)))

\* ElementValue.value, with p the pool of the class file
ElementValue_value(p, self) ==
    IF ~HasField(self, "tag") THEN Raise("AttributeError")
    ELSE IF self.tag \in SimpleTags \cup {TagEnum, TagClass, TagAnnotation, TagArray}
            /\ ~HasField(self, "value")
    THEN Raise("AttributeError")
    ELSE IF self.tag \in SimpleTags \/ self.tag = TagClass
    THEN Return(ConstantPool_get(p, self.value.v, None))
    ELSE IF self.tag = TagEnum
    THEN Return(PyTuple(<<ConstantPool_get(p, self.value.items[1].v, None),
                          ConstantPool_get(p, self.value.items[2].v, None)>>))
    ELSE IF self.tag \in {TagAnnotation, TagArray}
    THEN Return(self.value)
    ELSE Raise("ValueError")

\* RuntimeVisibleAnnotation.type: constants.get(self._type_index).value
RuntimeVisibleAnnotation_type(p, self) ==
    GetAttr(p, ConstantPool_get(p, self.type_index, None), "value")

\* list(annotation.key_value_pairs): the generator run to its end, or to the
\* exception one of its pairs raises
RECURSIVE RuntimeVisibleAnnotation_key_value_pairs(_, _, _, _)
RuntimeVisibleAnnotation_key_value_pairs(p, pairs, k, yielded) ==
    IF k > Len(pairs) THEN Return(PyList(yielded))
    ELSE LET name == GetAttr(p, ConstantPool_get(p, pairs[k][1], None), "value")
             value == ElementValue_value(p, pairs[k][2])
         IN  IF name.exc # "" THEN name
             ELSE IF value.exc # "" THEN value
             ELSE LET inner == GetAttr(p, value.val, "value")
                  IN  IF inner.exc # "" THEN inner
                      ELSE RuntimeVisibleAnnotation_key_value_pairs(
                               p, pairs, k + 1,
                               Append(yielded, PyTuple(<<name.val, inner.val>>)))

----------------------------------------------------------------------------
(* The inputs of the model *)

\* the constants the caller inserts
InsertConstants ==
    {ConstantClass(1), ConstantString(2), ConstantMethodRef(2, 3),
     ConstantNameAndType(1, 3)}

\* the index argument of insert: omitted, or an integer
InsertIndices == {None} \cup {PyInt(n) : n \in 0..MaxIndex}

GetIndices == -1..(MaxIndex + 1)
GetDefaults == {None, PyInt(0)}
Accessors == {"name", "string", "klass", "name_and_type", "descriptor"}

\* one encoded record of each kind, and two with a tag that is none
Utf8Record == <<1, 0, 2, 65, 66>>
LongRecord == <<5, 0, 0, 0, 0, 0, 0, 0, 7>>
ClassRecord == <<7, 0, 1>>
UnknownRecord == <<2>>
AllRecords ==
    {Utf8Record, LongRecord, ClassRecord, UnknownRecord,
     <<3, 255, 255, 255, 254>>, <<4, 63, 128, 0, 0>>,
     <<6, 64, 0, 0, 0, 0, 0, 0, 0>>, <<8, 0, 1>>, <<9, 0, 2, 0, 3>>,
     <<10, 0, 2, 0, 3>>, <<11, 0, 2, 0, 3>>, <<12, 0, 1, 0, 1>>, <<13>>}
\* the records a stream may hold before its last one
CoreRecords == {Utf8Record, LongRecord, ClassRecord, UnknownRecord}

RECURSIVE CoreStreams(_)
CoreStreams(n) ==
    IF n = 0 THEN {<<>>}
    ELSE CoreStreams(n - 1)
            \cup {s \o r : s \in CoreStreams(n - 1), r \in CoreRecords}

RecordStreams ==
    {<<>>} \cup {s \o r : s \in CoreStreams(MaxRecords - 1), r \in AllRecords}

\* a declared count n, then the records s, cut to its first k bytes
IoInput(n, s, k) == SubSeq(P16(n) \o s, 1, k)

----------------------------------------------------------------------------
(* The calls on a ConstantPool *)

NoCall == [op |-> "none"]

\* pool.insert(constant, index)
Insert(constant, index) ==
    LET r == ConstantPool_insert(pool, constant, index)
    IN  /\ r.out.exc = "" => r.out.val.v <= MaxIndex
        /\ pool' = r.pool
        /\ prev' = pool
        /\ call' = [op |-> "insert", constant |-> constant, index |-> index]
        /\ ret' = r.out
        /\ UNCHANGED <<io, pos, count, iter, pc, info, target, skip>>

\* pool.get(index, default)
Get(index, default) ==
    /\ pool' = pool
    /\ prev' = pool
    /\ call' = [op |-> "get", index |-> index, default |-> default]
    /\ ret' = Return(ConstantPool_get(pool, index, default))
    /\ UNCHANGED <<io, pos, count, iter, pc, info, target, skip>>

\* the constants a caller may hold: those it made and those in the pool
Constants(p) == InsertConstants \cup {p[j] : j \in DOMAIN p}

\* obj.<attr>, for a constant the caller holds and one of its properties
Access(obj, attr) ==
    /\ HasAttr(obj, attr)
    /\ pool' = pool
    /\ prev' = pool
    /\ call' = [op |-> "access", obj |-> obj, attr |-> attr]
    /\ ret' = GetAttr(pool, obj, attr)
    /\ UNCHANGED <<io, pos, count, iter, pc, info, target, skip>>

\* _load_from_io up to its loop: count = unpack('>H', read(2))[0]
LoadCount ==
    /\ pc = "new"
    /\ LET hd == Read(io, pos, 2)
       IN  /\ pos' = hd.pos
           /\ IF Len(hd.data) # 2
              THEN /\ pc' = "raised"
                   /\ ret' = Raise("struct.error")
                   /\ UNCHANGED <<count, iter>>
              ELSE /\ pc' = "loop"
                   /\ count' = U16(hd.data)
                   /\ iter' = 1
                   /\ ret' = ret
    /\ prev' = pool
    /\ call' = [op |-> "_load_from_io", index |-> 0, at |-> pos]
    /\ UNCHANGED <<pool, io, info, target, skip>>

\* one turn of the loop: the iterator's next value and the body, or the end,
\* where the call returns and its locals (io, count, the iterator) are gone
LoadNext ==
    /\ pc = "loop"
    /\ prev' = pool
    /\ call' = [op |-> "_load_from_io", index |-> iter, at |-> pos]
    /\ IF iter >= count
       THEN /\ pc' = "returned"
            /\ ret' = Return(None)
            /\ pool' = pool
            /\ io' = <<>>
            /\ pos' = 0
            /\ count' = 0
            /\ iter' = 0
       ELSE LET r == LoadRecord(pool, io, pos, iter, iter + 1, count)
            IN  /\ pool' = r.pool
                /\ pos' = r.pos
                /\ iter' = r.iter
                /\ pc' = IF r.exc = "" THEN "loop" ELSE "raised"
                /\ ret' = IF r.exc = "" THEN ret ELSE Raise(r.exc)
                /\ UNCHANGED <<io, count>>
    /\ UNCHANGED <<info, target, skip>>

\* a pool as constructed, and the calls a caller makes on it
Init ==
    /\ pool = EmptyPool
    /\ prev = EmptyPool
    /\ call = NoCall
    /\ ret = Return(None)
    /\ io = <<>>
    /\ pos = 0
    /\ count = 0
    /\ iter = 0
    /\ pc = "idle"
    /\ info = <<>>
    /\ target = None
    /\ skip = 0

Next ==
    \/ \E c \in InsertConstants, i \in InsertIndices : Insert(c, i)
    \/ \E i \in GetIndices, d \in GetDefaults : Get(i, d)
    \/ \E obj \in Constants(pool), a \in Accessors : Access(obj, a)

Spec == Init /\ [][Next]_vars

\* a pool loaded from a stream, then the calls that leave the choice of the
\* slot to the pool
InitLoad ==
    /\ pool = EmptyPool
    /\ prev = EmptyPool
    /\ call = NoCall
    /\ ret = Return(None)
    /\ \E n \in 0..MaxCount, s \in RecordStreams :
          \E k \in 0..(2 + Len(s)) : io = IoInput(n, s, k)
    /\ pos = 0
    /\ count = 0
    /\ iter = 0
    /\ pc = "new"
    /\ info = <<>>
    /\ target = None
    /\ skip = 0

NextLoad ==
    \/ LoadCount
    \/ LoadNext
    \/ pc = "returned" /\ \E c \in InsertConstants : Insert(c, None)
    \/ pc = "returned" /\ \E i \in GetIndices, d \in GetDefaults : Get(i, d)
    \/ pc = "returned" /\ \E obj \in Constants(pool), a \in Accessors : Access(obj, a)

SpecLoad == InitLoad /\ [][NextLoad]_vars

----------------------------------------------------------------------------
(* Claims about the pool's calls, under Spec *)

\* the smallest integer >= 1 that is no index of p
SmallestFree(p) ==
    CHOOSE n \in 1..(Cardinality(DOMAIN p) + 1) :
        /\ n \notin DOMAIN p
        /\ \A m \in 1..(n - 1) : m \in DOMAIN p

\* C1: insert with the index omitted stores the constant at, and returns, the
\* smallest integer >= 1 that is not an occupied index.
C1_AutoInsertSmallestFree ==
    (call.op = "insert" /\ call.index = None) =>
        /\ ret = Return(PyInt(SmallestFree(prev)))
        /\ pool = Store(prev, SmallestFree(prev), call.constant)

\* C2: after insert(c, index=i) with i >= 1, get(i) returns c, whatever slot i
\* held before; every other slot is unchanged; and every accessor of a
\* constant whose reference field is i returns c, as does any accessor read:
\* it returns what the pool holds at the time of the read.
C2_OverwriteAliasing ==
    /\ (call.op = "insert" /\ call.index # None /\ call.index.v >= 1) =>
        /\ ret = Return(call.index)
        /\ ConstantPool_get(pool, call.index.v, None) = call.constant
        /\ DOMAIN pool = DOMAIN prev \cup {call.index.v}
        /\ \A j \in DOMAIN prev \ {call.index.v} : pool[j] = prev[j]
        /\ \A obj \in Constants(pool), a \in Accessors :
              (HasAttr(obj, a) /\ RefIndex(obj, a) = call.index.v) =>
                  GetAttr(pool, obj, a) = Return(call.constant)
    /\ (call.op = "access" /\ RefIndex(call.obj, call.attr) \in DOMAIN pool) =>
        ret = Return(pool[RefIndex(call.obj, call.attr)])

\* an insert at an occupied index, replacing a different constant, which a
\* constant the pool already held at another index refers to
C2_Witness ==
    /\ call.op = "insert"
    /\ call.index # None
    /\ call.index.v \in DOMAIN prev
    /\ prev[call.index.v] # call.constant
    /\ \E k \in DOMAIN prev \ {call.index.v}, a \in Accessors :
          HasAttr(prev[k], a) /\ RefIndex(prev[k], a) = call.index.v

----------------------------------------------------------------------------
(* Claims about loading a pool, under SpecLoad *)

Loading == call.op = "_load_from_io" /\ pc \in {"loop", "raised"}

\* the last turn of the loop read a record's tag
ReadTag == Loading /\ call.index >= 1 /\ call.at < Len(io)
LastTag == io[call.at + 1]

WideConstants == {"ConstantLong", "ConstantDouble"}

\* C3: loading with declared count N stores records at strictly increasing
\* indices within 1..N-1; a Long or Double stored at i leaves i+1 absent and
\* moves the loop to i+2; every other tag moves it on by exactly 1.
C3_DoubleWidthEntries ==
    /\ Loading =>
        /\ DOMAIN pool \subseteq 1..(count - 1)
        /\ \A j \in DOMAIN pool :
              pool[j].ty \in WideConstants => (j + 1) \notin DOMAIN pool
    /\ ReadTag =>
        /\ DOMAIN pool \subseteq DOMAIN prev \cup {call.index}
        /\ \A j \in DOMAIN prev : j < call.index /\ pool[j] = prev[j]
        /\ (pc = "loop" /\ LastTag \in WideTags) =>
              /\ call.index \in DOMAIN pool
              /\ pool[call.index].ty \in WideConstants
              /\ iter = call.index + 2
        /\ (pc = "loop" /\ LastTag \notin WideTags) => iter = call.index + 1
    /\ (call.op = "_load_from_io" /\ pc = "returned") => pool = prev

\* a record stored two slots after a Long
C3_Witness ==
    /\ ReadTag
    /\ pc = "loop"
    /\ (call.index - 2) \in DOMAIN pool
    /\ pool[call.index - 2].ty = "ConstantLong"
    /\ call.index \in DOMAIN pool
    /\ (call.index - 1) \notin DOMAIN pool

\* C7: a record whose tag is none of 1, 3, ..., 12 makes the load fail at once.
C7_UnknownTagRejected ==
    (ReadTag /\ LastTag \notin BranchTags) => pc = "raised"

\* the bytes of the record that starts after `at` bytes of s are not all there
Truncated(s, at) ==
    \/ at >= Len(s)
    \/ /\ s[at + 1] = 1
       /\ \/ Len(s) - at < 3
          \/ Len(s) - at < 3 + U16(SubSeq(s, at + 2, at + 3))
    \/ /\ s[at + 1] \in BranchTags \ {1}
       /\ Len(s) - at < 1 + FieldSize(s[at + 1])

\* C8: a record the stream ends in the middle of makes the load fail; nothing
\* shortened is stored and the load does not go on.
C8_TruncatedRejected ==
    (Loading /\ call.index >= 1 /\ Truncated(io, call.at)) =>
        (pc = "raised" /\ pool = prev)

\* C9: get(index, default) on an index that is not occupied returns default
\* and leaves the pool as it was; an accessor whose index is dangling returns
\* None.
C9_MissingIsSoft ==
    /\ (call.op = "get" /\ call.index \notin DOMAIN prev) =>
        (ret = Return(call.default) /\ pool = prev)
    /\ (call.op = "access" /\ RefIndex(call.obj, call.attr) \notin DOMAIN prev) =>
        (ret = Return(None) /\ pool = prev)

\* a get, with a default that is not None, of the slot after a Long
C9_Witness ==
    /\ call.op = "get"
    /\ call.default # None
    /\ call.index \notin DOMAIN pool
    /\ (call.index - 1) \in DOMAIN pool
    /\ pool[call.index - 1].ty = "ConstantLong"

\* C10: after a load and any number of inserts with the index omitted, index
\* 0 is not occupied and neither is the slot after a Long or a Double.
C10_PlaceholdersUnused ==
    /\ 0 \notin DOMAIN pool
    /\ \A j \in DOMAIN pool :
          pool[j].ty \in WideConstants => (j + 1) \notin DOMAIN pool

----------------------------------------------------------------------------
(* The annotation codec's inputs and calls *)

\* the largest count of an encoded array
MaxElems == 2
\* the largest num_element_value_pairs of an encoded annotation
MaxPairs == 2
\* how deep encoded arrays and annotations nest
MaxDepth == 2
\* the largest num_annotations of an encoded attribute
MaxAnnotations == 2

\* the concatenations of k members of S
RECURSIVE Concats(_, _)
Concats(S, k) ==
    IF k = 0 THEN {<<>>}
    ELSE {a \o b : a \in Concats(S, k - 1), b \in S}

\* encoded arrays of at most n elements, which are in S
ArraysOf(S, n) ==
    UNION {{<<TagArray>> \o P16(k) \o b : b \in Concats(S, k)} : k \in 0..n}

\* encoded annotations with a type index in T and at most m pairs, with name
\* indices in N and values in S
AnnotationsOf(T, N, S, m) ==
    UNION {{P16(t) \o P16(k) \o b :
               t \in T, b \in Concats({P16(n) \o e : n \in N, e \in S}, k)} :
           k \in 0..m}

\* every tag with one payload of indices
BaseEVs ==
    {<<t>> \o P16(i) : t \in SimpleTags \cup {TagClass}, i \in 1..3}
        \cup {<<TagEnum>> \o P16(i) \o P16(j) : i \in 1..3, j \in 1..3}

\* the values that arrays and annotations are nested over
NestBase == {<<73, 0, 3>>, <<TagEnum, 0, 1, 0, 2>>, <<TagClass, 0, 2>>}

RECURSIVE NestEVs(_)
NestEVs(d) ==
    IF d = 0 THEN NestBase
    ELSE NestEVs(d - 1)
            \cup ArraysOf(NestEVs(d - 1), MaxElems)
            \cup {<<TagAnnotation>> \o a :
                     a \in AnnotationsOf({2}, {1}, NestEVs(d - 1), MaxPairs)}

\* an unknown tag, payloads cut short, nothing at all
MalformedEVs ==
    {<<>>, <<120, 0, 1>>, <<73, 0>>, <<TagEnum, 0, 1, 0>>, <<TagArray, 0, 2, 73, 0, 1>>,
     <<TagAnnotation, 0, 2, 0, 1, 0>>, <<TagArray, 0, 1, 120>>}

\* the encoded ElementValues, nested to depth d
EVInputs(d) == BaseEVs \cup NestEVs(d) \cup MalformedEVs

\* the encoded annotations of an attribute, of at most m pairs each
AttrAnnotations(m) ==
    AnnotationsOf(1..3, {1},
                  NestBase \cup {<<TagArray, 0, 1, 73, 0, 3>>,
                                 <<TagAnnotation, 0, 2, 0, 0>>}, m)

\* the encoded attributes of at most n annotations, and two cut short
AttrInputs(n) ==
    UNION {{P16(k) \o b : b \in Concats(AttrAnnotations(MaxPairs), k)} : k \in 0..n}
        \cup {<<0>>, <<0, 1, 0, 2>>}

\* the pool after inserting the constants of cs, in order, into a new pool
RECURSIVE PoolOf(_)
PoolOf(cs) ==
    IF cs = <<>> THEN EmptyPool
    ELSE ConstantPool_insert(PoolOf(SubSeq(cs, 1, Len(cs) - 1)),
                             cs[Len(cs)], None).pool

Foo == PyStr(<<70, 111, 111>>)

AnnPools ==
    {PoolOf(<<Foo, ConstantClass(1)>>),
     PoolOf(<<Foo, ConstantClass(1), ConstantInteger(PyInt(7))>>),
     PoolOf(<<ConstantInteger(PyInt(5)), Foo, ConstantInteger(PyInt(7))>>)}

Codec(op, outcome) ==
    /\ call' = [op |-> op]
    /\ ret' = outcome
    /\ prev' = pool
    /\ UNCHANGED <<pool, io, pos, count, iter, pc, info>>

\* skip = ElementValue(cf).unpack(info)
ElementValueUnpack ==
    /\ target = [ty |-> "ElementValue"]
    /\ call.op = "none"
    /\ LET r == ElementValue_unpack(info)
       IN  /\ target' = r.obj
           /\ skip' = r.skip
           /\ Codec("ElementValue.unpack",
                    IF r.exc = "" THEN Return(PyInt(r.skip)) ELSE Raise(r.exc))

\* element_value.info
ElementValueInfo ==
    /\ target.ty = "ElementValue"
    /\ call.op # "none"
    /\ Codec("ElementValue.info", ElementValue_info(target))
    /\ UNCHANGED <<target, skip>>

\* element_value.value
ElementValueValue ==
    /\ target.ty = "ElementValue"
    /\ call.op # "none"
    /\ Codec("ElementValue.value", ElementValue_value(pool, target))
    /\ UNCHANGED <<target, skip>>

\* attribute.unpack(info)
AttributeUnpack ==
    /\ target = [ty |-> "RuntimeVisibleAnnotationsAttribute"]
    /\ call.op = "none"
    /\ LET r == RuntimeVisibleAnnotationsAttribute_unpack(target, info)
       IN  /\ target' = r.obj
           /\ Codec("RuntimeVisibleAnnotationsAttribute.unpack",
                    IF r.exc = "" THEN Return(None) ELSE Raise(r.exc))
    /\ UNCHANGED skip

\* attribute.info
AttributeInfo ==
    /\ target.ty = "RuntimeVisibleAnnotationsAttribute"
    /\ call.op # "none"
    /\ Codec("RuntimeVisibleAnnotationsAttribute.info",
             RuntimeVisibleAnnotationsAttribute_info(target))
    /\ UNCHANGED <<target, skip>>

\* attribute.annotations[k].type
AnnotationType(k) ==
    /\ call' = [op |-> "RuntimeVisibleAnnotation.type", k |-> k]
    /\ ret' = RuntimeVisibleAnnotation_type(pool, target.annotations[k])
    /\ prev' = pool
    /\ UNCHANGED <<pool, io, pos, count, iter, pc, info, target, skip>>

\* list(attribute.annotations[k].key_value_pairs)
AnnotationKeyValuePairs(k) ==
    /\ call' = [op |-> "RuntimeVisibleAnnotation.key_value_pairs", k |-> k]
    /\ ret' = RuntimeVisibleAnnotation_key_value_pairs(
                  pool, target.annotations[k].element_value_pairs, 1, <<>>)
    /\ prev' = pool
    /\ UNCHANGED <<pool, io, pos, count, iter, pc, info, target, skip>>

\* the annotations of a decoded attribute
Decoded ==
    IF target.ty = "RuntimeVisibleAnnotationsAttribute"
            /\ HasField(target, "annotations")
    THEN 1..Len(target.annotations) ELSE {}

\* a class file's pool, and either an ElementValue or an attribute to decode
InitAnn ==
    /\ pool \in AnnPools
    /\ prev = pool
    /\ call = NoCall
    /\ ret = Return(None)
    /\ io = <<>>
    /\ pos = 0
    /\ count = 0
    /\ iter = 0
    /\ pc = "idle"
    /\ skip = 0
    /\ \/ target = [ty |-> "ElementValue"] /\ info \in EVInputs(MaxDepth)
       \/ target = [ty |-> "RuntimeVisibleAnnotationsAttribute"]
            /\ info \in AttrInputs(MaxAnnotations)

NextAnn ==
    \/ ElementValueUnpack
    \/ ElementValueInfo
    \/ ElementValueValue
    \/ AttributeUnpack
    \/ AttributeInfo
    \/ \E k \in Decoded : AnnotationType(k)
    \/ \E k \in Decoded : AnnotationKeyValuePairs(k)

SpecAnn == InitAnn /\ [][NextAnn]_vars

----------------------------------------------------------------------------
(* Claims about the annotation codec, under SpecAnn *)

\* C4: for an ElementValue that unpack decoded, info is exactly the bytes
\* that unpack consumed.
C4_RoundTrip ==
    (call.op = "ElementValue.info" /\ HasField(target, "value")) =>
        ret = Return(PyStr(SubSeq(info, 1, skip)))

\* the pool holds a Class at t whose name_index holds a byte string
ClassWithName(p, t) ==
    /\ t \in DOMAIN p
    /\ p[t].ty = "ConstantClass"
    /\ p[t].ni \in DOMAIN p
    /\ p[p[t].ni].ty = "str"

\* C5: decoding count=1, type_index=t, pair_count=0, where the pool holds at
\* t a Class whose name is the string s, gives one annotation whose type is s.
C5_TypeResolves ==
    (/\ call.op = "RuntimeVisibleAnnotation.type"
     /\ Len(info) = 6
     /\ SubSeq(info, 1, 2) = <<0, 1>>
     /\ SubSeq(info, 5, 6) = <<0, 0>>
     /\ ClassWithName(pool, U16(SubSeq(info, 3, 4)))) =>
        /\ Len(target.annotations) = 1
        /\ ret = Return(pool[pool[U16(SubSeq(info, 3, 4))].ni])

\* what C6 says key_value_pairs yields for the pairs of an annotation
NamedValues(p, pairs) ==
    [k \in 1..Len(pairs) |->
        PyTuple(<<ConstantPool_get(p, pairs[k][1], None),
                  ElementValue_value(p, pairs[k][2]).val>>)]

\* C6: key_value_pairs yields, for each stored pair in order, the pool entry
\* at name_index and the ElementValue's own value, neither dereferenced again.
C6_KeyValuePairs ==
    call.op = "RuntimeVisibleAnnotation.key_value_pairs" =>
        ret = Return(PyList(NamedValues(
                  pool, target.annotations[call.k].element_value_pairs)))

====
